---- MODULE Spec2Model ----
(***************************************************************************)
(* The device-plugin lifecycle of nvidia-cdi-device-plugin (src/main.rs):  *)
(* the owning process (main), the Coordinator task spawned by              *)
(* maintain_registration, the serving tasks spawned by                     *)
(* start_device_plugin_server, the keep-alive tasks spawned by             *)
(* list_and_watch, and the environment (kubelet deleting the socket file,  *)
(* clients dropping their streams).                                        *)
(*                                                                         *)
(* The tokio runtime built by #[tokio::main] is multi-threaded: main and   *)
(* every spawned task run in parallel, so each action below is one run of  *)
(* synchronous code between two points where other threads can interleave. *)
(* JoinHandle::abort() marks a task cancelled; a task that is suspended at *)
(* an .await never runs again, a task that is running on another thread    *)
(* goes on until its next .await that returns Pending.                     *)
(***************************************************************************)
EXTENDS Integers, Sequences, FiniteSets

\* ------------------------------------------------------------------ bounds
MaxDevices == 2      \* host devices matched by DEVICE_GLOB
MaxTasks == 3        \* serving tasks spawned: one at startup, the others by repairs
MaxStreams == 1      \* ListAndWatch subscriptions
MaxContainers == 2   \* container requests in one Allocate or GetPreferredAllocation call
MaxIds == 2          \* device ids named by one call, over all its container requests

\* ------------------------------------------------------------- inputs
\* --resource-name values, as character sequences: one fully qualified, one not.
ResourceNames == { <<"n", "/", "g">>, <<"g">> }

VARIABLES
    resource_name,   \* args.resource_name
    pc,              \* pc["main"], pc["coord"]: position of main and of the Coordinator task
    devices,         \* plugin.devices: id -> Device (BTreeMap)
    tasks,           \* serving tasks spawned so far: tasks[k] = [st, devices]
    server_handle,   \* the JoinHandle in Arc<Mutex<..>>: index into tasks, 0 before it exists
    lock,            \* holder of the server_handle mutex: "free", "main", "coord"
    sock,            \* socket_path on disk: 0 absent, -1 stale file of an earlier run, k bound by task k
    new_handle,      \* the Coordinator's local new_handle (0: none)
    shutdown,        \* the watch channel: [value, version]
    seen,            \* version last seen by the Coordinator's watch::Receiver
    reg_aborted,     \* reg_task.abort() was called
    in_flight,       \* callers with a registration call in flight
    streams,         \* ListAndWatch subscriptions: [items, ka, seen, rx]
    iter,            \* what the Coordinator did in its current iteration
    startup,         \* what main's startup sequence has achieved
    rpc              \* the unary RPC at the Service: [kind, req, resp]

vars == << resource_name, pc, devices, tasks, server_handle, lock, sock,
           new_handle, shutdown, seen, reg_aborted, in_flight,
           streams, iter, startup, rpc >>

Procs == {"main", "coord"}

\* ------------------------------------------------------- device inventory
\* idx.to_string(): the decimal digits of a natural number.
Digit(d) == CASE d = 0 -> "0" [] d = 1 -> "1" [] d = 2 -> "2" [] d = 3 -> "3"
              [] d = 4 -> "4" [] d = 5 -> "5" [] d = 6 -> "6" [] d = 7 -> "7"
              [] d = 8 -> "8" [] d = 9 -> "9"

RECURSIVE Decimal(_)
Decimal(n) == IF n < 10 THEN << Digit(n) >>
               ELSE Decimal(n \div 10) \o << Digit(n % 10) >>

\* format!("{resource_name}={idx}")
DeviceId(rn, idx) == rn \o << "=" >> \o Decimal(idx)

Device(rn, idx) == [ id |-> DeviceId(rn, idx), health |-> "Healthy", topology |-> "None" ]


\* discover_devices with the index left out of the id, format!("{resource_name}="):
\* every host device gets the same key and the map keeps one entry.
discover_devices_NoIndex(rn, n) ==
    [ id \in { rn \o << "=" >> : i \in 0 .. n - 1 } |->
        [ id |-> id, health |-> "Healthy", topology |-> "None" ] ]

\* discover_devices with n paths matching DEVICE_GLOB: the BTreeMap id -> Device.
discover_devices(rn, n) ==
    [ id \in { DeviceId(rn, i) : i \in 0 .. n - 1 } |->
        CHOOSE d \in { Device(rn, i) : i \in 0 .. n - 1 } : d.id = id ]

\* String order of two character sequences (the BTreeMap's key order).
CharRank(c) == CASE c = "/" -> 1 [] c = "0" -> 2 [] c = "1" -> 3 [] c = "2" -> 4
                 [] c = "3" -> 5 [] c = "4" -> 6 [] c = "5" -> 7 [] c = "6" -> 8
                 [] c = "7" -> 9 [] c = "8" -> 10 [] c = "9" -> 11 [] c = "=" -> 12
                 [] OTHER -> 13

RECURSIVE StrLess(_, _)
StrLess(a, b) ==
    IF a = << >> THEN b # << >>
    ELSE IF b = << >> THEN FALSE
    ELSE IF Head(a) # Head(b) THEN CharRank(Head(a)) < CharRank(Head(b))
    ELSE StrLess(Tail(a), Tail(b))

\* self.devices.values().cloned().collect(): the devices in key order.
RECURSIVE Values(_)
Values(m) ==
    IF DOMAIN m = {} THEN << >>
    ELSE LET k == CHOOSE x \in DOMAIN m : \A y \in DOMAIN m \ {x} : StrLess(x, y)
         IN  << m[k] >> \o Values([ id \in DOMAIN m \ {k} |-> m[id] ])

\* args.resource_name.contains('/')
Contains(s, c) == \E i \in 1 .. Len(s) : s[i] = c

\* ------------------------------------------------------------- helpers
Alive == pc["main"] \notin {"exit_ok", "exit_err"}

Live(k) == tasks[k].st = "live"

\* JoinHandle::abort on task k (k = 0: no task).
Abort(t, k) == IF k \in 1 .. Len(t) THEN [ t EXCEPT ![k].st = "aborted" ] ELSE t

\* UnixStream::connect(socket_path) succeeds: the file is a socket whose listener is open.
Connectable == sock \in 1 .. Len(tasks) /\ Live(sock)

\* The record of one Coordinator iteration: the path was found missing; the task
\* of the handle in the cell was already aborted when the fresh one was spawned;
\* the outcome of the restart ("none", "ok", "err"); the task it spawned; the
\* number of handle replacements and of registration calls; the outcome of the
\* registration call ("none", "ok", "err").
NoIter == [ missing |-> FALSE, old_aborted |-> FALSE, restart |-> "none",
            spawned |-> 0, installs |-> 0, regs |-> 0, reg |-> "none" ]

\* No unary RPC has reached the Service.
NoRpc == [ kind |-> "none", req |-> << >>, resp |-> [ code |-> "None" ] ]

Init ==
    /\ resource_name \in ResourceNames
    /\ pc = [ p \in Procs |-> IF p = "main" THEN "parse" ELSE "none" ]
    /\ devices = << >>
    /\ tasks = << >>
    /\ server_handle = 0
    /\ lock = "free"
    /\ sock \in {0, -1}
    /\ new_handle = 0
    /\ shutdown = [ value |-> FALSE, version |-> 0 ]
    /\ seen = 0
    /\ reg_aborted = FALSE
    /\ in_flight = {}
    /\ streams = << >>
    /\ iter = NoIter
    /\ startup = [ started |-> FALSE, connected |-> FALSE, registered |-> FALSE,
                   failed |-> FALSE ]
    /\ rpc = NoRpc

\* ------------------------------------------- start_device_plugin_server
\* The function is called by main (startup) and by the Coordinator (repair); p is
\* the caller.  It contains no .await that can suspend: once entered it runs to
\* its return, interleaved only with other threads and with the environment.

\* if socket_path.exists()
StartExists(p) ==
    /\ Alive
    /\ pc[p] = "start_exists"
    /\ pc' = [ pc EXCEPT ![p] = IF sock # 0 THEN "start_remove" ELSE "start_bind" ]
    /\ UNCHANGED << rpc, resource_name, devices, tasks, server_handle, lock, sock,
                    new_handle, shutdown, seen, reg_aborted, in_flight,
                    streams, iter, startup >>

\* What the caller does with Err(..) from start_device_plugin_server:
\* main propagates it with `?`, the Coordinator logs it and goes on to register.
StartFailed(p) ==
    /\ pc' = [ pc EXCEPT ![p] = IF p = "main" THEN "exit_err" ELSE "register" ]
    /\ startup' = IF p = "main" THEN [ startup EXCEPT !.failed = TRUE ] ELSE startup
    /\ iter' = IF p = "coord" THEN [ iter EXCEPT !.restart = "err" ] ELSE iter

\* std::fs::remove_file(&socket_path)?  - fails when the file is gone by now.
StartRemove(p) ==
    /\ Alive
    /\ pc[p] = "start_remove"
    /\ IF sock = 0
         THEN /\ StartFailed(p)
              /\ sock' = sock
         ELSE /\ sock' = 0
              /\ pc' = [ pc EXCEPT ![p] = "start_bind" ]
              /\ UNCHANGED << startup, iter >>
    /\ UNCHANGED << rpc, resource_name, devices, tasks, server_handle, lock,
                    new_handle, shutdown, seen, reg_aborted, in_flight,
                    streams >>


\* StartBindOk building the plugin of a restart afresh (NvidiaCdiDevicePlugin::new
\* instead of plugin.clone()): the new serving task gets whatever a rescan of the
\* host finds.
StartBindOk_Rescan(p) ==
    /\ Alive
    /\ pc[p] = "start_bind"
    /\ sock = 0
    /\ LET k == Len(tasks) + 1 IN
        /\ \E n \in 0 .. MaxDevices :
             tasks' = Append(tasks, [ st |-> "live",
                                      devices |-> IF p = "main" THEN devices
                                                  ELSE discover_devices(resource_name, n) ])
        /\ sock' = k
        /\ IF p = "main"
             THEN /\ server_handle' = k
                  /\ new_handle' = new_handle
                  /\ startup' = [ startup EXCEPT !.started = TRUE ]
                  /\ iter' = iter
                  /\ pc' = [ pc EXCEPT ![p] = "wait_socket" ]
             ELSE /\ server_handle' = server_handle
                  /\ new_handle' = k
                  /\ startup' = startup
                  /\ iter' = [ iter EXCEPT
                                 !.restart = "ok",
                                 !.spawned = k,
                                 !.old_aborted = (tasks[server_handle].st = "aborted") ]
                  /\ pc' = [ pc EXCEPT ![p] = "lock_new" ]
    /\ UNCHANGED << rpc, resource_name, devices, lock, shutdown, seen, reg_aborted,
                    in_flight, streams >>

\* UnixListener::bind(&socket_path)? ... tokio::spawn(serve) ... Ok(handle):
\* the socket file is created, the serving task k is spawned over the listener, and
\* the caller receives its handle (main stores it in server_handle, the
\* Coordinator keeps it in new_handle until it has the lock).
StartBindOk(p) ==
    /\ Alive
    /\ pc[p] = "start_bind"
    /\ sock = 0
    /\ LET k == Len(tasks) + 1 IN
        /\ tasks' = Append(tasks, [ st |-> "live", devices |-> devices ])
        /\ sock' = k
        /\ IF p = "main"
             THEN /\ server_handle' = k
                  /\ new_handle' = new_handle
                  /\ startup' = [ startup EXCEPT !.started = TRUE ]
                  /\ iter' = iter
                  /\ pc' = [ pc EXCEPT ![p] = "wait_socket" ]
             ELSE /\ server_handle' = server_handle
                  /\ new_handle' = k
                  /\ startup' = startup
                  /\ iter' = [ iter EXCEPT
                                 !.restart = "ok",
                                 !.spawned = k,
                                 !.old_aborted = (tasks[server_handle].st = "aborted") ]
                  /\ pc' = [ pc EXCEPT ![p] = "lock_new" ]
    /\ UNCHANGED << rpc, resource_name, devices, lock, shutdown, seen, reg_aborted,
                    in_flight, streams >>

\* UnixListener::bind(&socket_path)? fails (the directory is missing or not
\* writable, the address is in use).
StartBindErr(p) ==
    /\ Alive
    /\ pc[p] = "start_bind"
    /\ StartFailed(p)
    /\ UNCHANGED << rpc, resource_name, devices, tasks, server_handle, lock, sock,
                    new_handle, shutdown, seen, reg_aborted, in_flight,
                    streams >>

\* ------------------------------------------------- register_with_kubelet
\* The call is issued (connect to kubelet.sock, send the RegisterRequest) ...
RegisterCall(p) ==
    /\ Alive
    /\ pc[p] = "register"
    /\ in_flight' = in_flight \cup {p}
    /\ iter' = IF p = "coord" THEN [ iter EXCEPT !.regs = @ + 1 ] ELSE iter
    /\ pc' = [ pc EXCEPT ![p] = "reg_wait" ]
    /\ UNCHANGED << rpc, resource_name, devices, tasks, server_handle, lock, sock,
                    new_handle, shutdown, seen, reg_aborted, streams,
                    startup >>


\* RegisterReturn with `?` on the Coordinator's call too: a failed registration
\* ends the loop.
RegisterReturn_Fatal(p, ok) ==
    /\ Alive
    /\ pc[p] = "reg_wait"
    /\ p = "coord" => ~reg_aborted
    /\ in_flight' = in_flight \ {p}
    /\ IF p = "main"
         THEN /\ pc' = [ pc EXCEPT ![p] = IF ok THEN "spawn_coord" ELSE "exit_err" ]
              /\ startup' = IF ok THEN [ startup EXCEPT !.registered = TRUE ]
                                  ELSE [ startup EXCEPT !.failed = TRUE ]
              /\ iter' = iter
         ELSE /\ pc' = [ pc EXCEPT ![p] = IF ok THEN "select" ELSE "done" ]
              /\ startup' = startup
              /\ iter' = [ iter EXCEPT !.reg = IF ok THEN "ok" ELSE "err" ]
    /\ UNCHANGED << rpc, resource_name, devices, tasks, server_handle, lock, sock,
                    new_handle, shutdown, seen, reg_aborted, streams >>


\* RegisterReturn with a retry inside the iteration: after Err(..) the
\* Coordinator calls register_with_kubelet again at once.
RegisterReturn_RetryNow(p, ok) ==
    /\ Alive
    /\ pc[p] = "reg_wait"
    /\ p = "coord" => ~reg_aborted
    /\ in_flight' = in_flight \ {p}
    /\ IF p = "main"
         THEN /\ pc' = [ pc EXCEPT ![p] = IF ok THEN "spawn_coord" ELSE "exit_err" ]
              /\ startup' = IF ok THEN [ startup EXCEPT !.registered = TRUE ]
                                  ELSE [ startup EXCEPT !.failed = TRUE ]
              /\ iter' = iter
         ELSE /\ pc' = [ pc EXCEPT ![p] = IF ok THEN "select" ELSE "register" ]
              /\ startup' = startup
              /\ iter' = [ iter EXCEPT !.reg = IF ok THEN "ok" ELSE "err" ]
    /\ UNCHANGED << rpc, resource_name, devices, tasks, server_handle, lock, sock,
                    new_handle, shutdown, seen, reg_aborted, streams >>

\* ... and returns Ok(()) or Err(..).  main propagates the error with `?`; the
\* Coordinator logs it and goes on to the select!.  The Coordinator is suspended
\* while the call is in flight, so it only resumes if it has not been aborted.
RegisterReturn(p, ok) ==
    /\ Alive
    /\ pc[p] = "reg_wait"
    /\ p = "coord" => ~reg_aborted
    /\ in_flight' = in_flight \ {p}
    /\ IF p = "main"
         THEN /\ pc' = [ pc EXCEPT ![p] = IF ok THEN "spawn_coord" ELSE "exit_err" ]
              /\ startup' = IF ok THEN [ startup EXCEPT !.registered = TRUE ]
                                  ELSE [ startup EXCEPT !.failed = TRUE ]
              /\ iter' = iter
         ELSE /\ pc' = [ pc EXCEPT ![p] = "select" ]
              /\ startup' = startup
              /\ iter' = [ iter EXCEPT !.reg = IF ok THEN "ok" ELSE "err" ]
    /\ UNCHANGED << rpc, resource_name, devices, tasks, server_handle, lock, sock,
                    new_handle, shutdown, seen, reg_aborted, streams >>

\* ------------------------------------------------------------------ main
\* Args::parse(); if !args.resource_name.contains('/') { bail!(..) }
MainParse ==
    /\ pc["main"] = "parse"
    /\ IF Contains(resource_name, "/")
         THEN /\ pc' = [ pc EXCEPT !["main"] = "new_plugin" ]
              /\ startup' = startup
         ELSE /\ pc' = [ pc EXCEPT !["main"] = "exit_err" ]
              /\ startup' = [ startup EXCEPT !.failed = TRUE ]
    /\ UNCHANGED << rpc, resource_name, devices, tasks, server_handle, lock, sock,
                    new_handle, shutdown, seen, reg_aborted, in_flight,
                    streams, iter >>

\* watch::channel(false); NvidiaCdiDevicePlugin::new(..): the inventory is
\* discovered once, from the n device nodes the host has.
MainNewPlugin ==
    /\ pc["main"] = "new_plugin"
    /\ \E n \in 0 .. MaxDevices : devices' = discover_devices(resource_name, n)
    /\ pc' = [ pc EXCEPT !["main"] = "start_exists" ]
    /\ UNCHANGED << rpc, resource_name, tasks, server_handle, lock, sock, new_handle,
                    shutdown, seen, reg_aborted, in_flight, streams,
                    iter, startup >>


\* MainWaitSocket with the timeout error swallowed: startup goes on to register
\* although the socket was never connectable.
MainWaitSocket_IgnoresTimeout ==
    /\ pc["main"] = "wait_socket"
    /\ pc' = [ pc EXCEPT !["main"] = "register" ]
    /\ startup' = [ startup EXCEPT !.connected = Connectable ]
    /\ UNCHANGED << rpc, resource_name, devices, tasks, server_handle, lock, sock,
                    new_handle, shutdown, seen, reg_aborted, in_flight, streams,
                    iter >>

\* wait_for_socket: connect succeeds, or the deadline passes while it still fails
\* (a failed connect before the deadline sleeps 200 ms and tries again, which
\* changes nothing).
MainWaitSocket ==
    /\ pc["main"] = "wait_socket"
    /\ IF Connectable
         THEN /\ pc' = [ pc EXCEPT !["main"] = "register" ]
              /\ startup' = [ startup EXCEPT !.connected = TRUE ]
         ELSE /\ pc' = [ pc EXCEPT !["main"] = "exit_err" ]
              /\ startup' = [ startup EXCEPT !.failed = TRUE ]
    /\ UNCHANGED << rpc, resource_name, devices, tasks, server_handle, lock, sock,
                    new_handle, shutdown, seen, reg_aborted, in_flight,
                    streams, iter >>

\* maintain_registration(..).await: the Coordinator task is spawned with
\* shutdown_rx, which has seen the initial version of the channel.
MainSpawnCoordinator ==
    /\ pc["main"] = "spawn_coord"
    /\ pc' = [ pc EXCEPT !["main"] = "ctrl_c", !["coord"] = "spawned" ]
    /\ seen' = 0
    /\ UNCHANGED << rpc, resource_name, devices, tasks, server_handle, lock, sock,
                    new_handle, shutdown, reg_aborted, in_flight, streams,
                    iter, startup >>

\* tokio::signal::ctrl_c().await? : the interrupt arrives ...
MainCtrlC ==
    /\ pc["main"] = "ctrl_c"
    /\ pc' = [ pc EXCEPT !["main"] = "send" ]
    /\ UNCHANGED << rpc, resource_name, devices, tasks, server_handle, lock, sock,
                    new_handle, shutdown, seen, reg_aborted, in_flight,
                    streams, iter, startup >>

\* main returns with the Coordinator launched: the runtime is dropped and the
\* process ends, and with it every task, channel and handle it had.  What stays
\* is the file system.
ProcessEnds(how) ==
    /\ pc' = [ main |-> how, coord |-> "gone" ]
    /\ tasks' = [ k \in 1 .. Len(tasks) |-> [ tasks[k] EXCEPT !.st = "gone" ] ]
    /\ streams' = << >>
    /\ in_flight' = {}
    /\ new_handle' = 0
    /\ lock' = "free"
    /\ iter' = NoIter
    /\ seen' = 0
    /\ rpc' = NoRpc
    /\ UNCHANGED << resource_name, devices, server_handle, sock, shutdown,
                    reg_aborted, startup >>

\* ... or installing the signal handler fails and `?` ends main with the error.
MainCtrlCErr ==
    /\ pc["main"] = "ctrl_c"
    /\ ProcessEnds("exit_err")


\* MainSendShutdown sending the wrong value: shutdown_tx.send(false).
MainSendShutdown_SendsFalse ==
    /\ pc["main"] = "send"
    /\ shutdown' = [ value |-> FALSE, version |-> shutdown.version + 1 ]
    /\ pc' = [ pc EXCEPT !["main"] = "lock" ]
    /\ UNCHANGED << rpc, resource_name, devices, tasks, server_handle, lock, sock,
                    new_handle, seen, reg_aborted, in_flight, streams, iter, startup >>

\* let _ = shutdown_tx.send(true);
MainSendShutdown ==
    /\ pc["main"] = "send"
    /\ shutdown' = [ value |-> TRUE, version |-> shutdown.version + 1 ]
    /\ pc' = [ pc EXCEPT !["main"] = "lock" ]
    /\ UNCHANGED << rpc, resource_name, devices, tasks, server_handle, lock, sock,
                    new_handle, seen, reg_aborted, in_flight, streams,
                    iter, startup >>

\* let handle = server_handle.lock().await;
MainLock ==
    /\ pc["main"] = "lock"
    /\ lock = "free"
    /\ lock' = "main"
    /\ pc' = [ pc EXCEPT !["main"] = "abort_server" ]
    /\ UNCHANGED << rpc, resource_name, devices, tasks, server_handle, sock, new_handle,
                    shutdown, seen, reg_aborted, in_flight, streams,
                    iter, startup >>

\* handle.abort(); }  - the guard is dropped at the end of the block.
MainAbortServer ==
    /\ pc["main"] = "abort_server"
    /\ tasks' = Abort(tasks, server_handle)
    /\ lock' = "free"
    /\ pc' = [ pc EXCEPT !["main"] = "abort_reg" ]
    /\ UNCHANGED << rpc, resource_name, devices, server_handle, sock, new_handle,
                    shutdown, seen, reg_aborted, in_flight, streams,
                    iter, startup >>

\* reg_task.abort();  - the shutdown sequence is complete after it.
MainAbortCoordinator ==
    /\ pc["main"] = "abort_reg"
    /\ reg_aborted' = TRUE
    /\ pc' = [ pc EXCEPT !["main"] = "finished" ]
    /\ UNCHANGED << rpc, resource_name, devices, tasks, server_handle, lock, sock,
                    new_handle, shutdown, seen, in_flight, streams,
                    iter, startup >>

\* Ok(())  - main returns, the runtime is dropped and the process ends.
MainReturn ==
    /\ pc["main"] = "finished"
    /\ ProcessEnds("exit_ok")

\* ----------------------------------------- maintain_registration (Coordinator)
\* Positions at which the Coordinator task is suspended in an .await; an aborted
\* task is never polled again from there.
Suspended == {"spawned", "lock_old_wait", "lock_new_wait", "reg_wait", "select"}

\* The first poll of the spawned task.
CoordStart ==
    /\ Alive
    /\ pc["coord"] = "spawned"
    /\ ~reg_aborted
    /\ pc' = [ pc EXCEPT !["coord"] = "head" ]
    /\ UNCHANGED << rpc, resource_name, devices, tasks, server_handle, lock, sock,
                    new_handle, shutdown, seen, reg_aborted, in_flight,
                    streams, iter, startup >>


\* CoordLoopHead without the `if *shutdown.borrow() { break; }`: the loop goes
\* round whatever the signal says.
CoordLoopHead_NoCheck ==
    /\ Alive
    /\ pc["coord"] = "head"
    /\ pc' = [ pc EXCEPT !["coord"] = "check_path" ]
    /\ UNCHANGED << rpc, resource_name, devices, tasks, server_handle, lock, sock,
                    new_handle, shutdown, seen, reg_aborted, in_flight, streams,
                    iter, startup >>

\* loop { if *shutdown.borrow() { break; }
CoordLoopHead ==
    /\ Alive
    /\ pc["coord"] = "head"
    /\ pc' = [ pc EXCEPT !["coord"] = IF shutdown.value THEN "done" ELSE "check_path" ]
    /\ UNCHANGED << rpc, resource_name, devices, tasks, server_handle, lock, sock,
                    new_handle, shutdown, seen, reg_aborted, in_flight,
                    streams, iter, startup >>


\* CoordCheckPath without the test: the iteration goes straight to the
\* registration call and never repairs a missing socket.
CoordCheckPath_NoRepair ==
    /\ Alive
    /\ pc["coord"] = "check_path"
    /\ pc' = [ pc EXCEPT !["coord"] = "register" ]
    /\ UNCHANGED << rpc, resource_name, devices, tasks, server_handle, lock, sock,
                    new_handle, shutdown, seen, reg_aborted, in_flight, streams,
                    iter, startup >>

\* if !socket_path.exists() {
CoordCheckPath ==
    /\ Alive
    /\ pc["coord"] = "check_path"
    /\ pc' = [ pc EXCEPT !["coord"] = IF sock = 0 THEN "lock_old" ELSE "register" ]
    /\ iter' = [ iter EXCEPT !.missing = (sock = 0) ]
    /\ UNCHANGED << rpc, resource_name, devices, tasks, server_handle, lock, sock,
                    new_handle, shutdown, seen, reg_aborted, in_flight,
                    streams, startup >>

\* server_handle.lock().await at position `at`: the guard is obtained at once when
\* the mutex is free, otherwise the task suspends.
CoordLock(at, got) ==
    /\ Alive
    /\ pc["coord"] = at
    /\ IF lock = "free"
         THEN /\ lock' = "coord"
              /\ pc' = [ pc EXCEPT !["coord"] = got ]
         ELSE /\ lock' = lock
              /\ pc' = [ pc EXCEPT !["coord"] = at \o "_wait" ]
    /\ UNCHANGED << rpc, resource_name, devices, tasks, server_handle, sock, new_handle,
                    shutdown, seen, reg_aborted, in_flight, streams,
                    iter, startup >>

\* The suspended lock().await is woken once the mutex is free.
CoordLockResume(at, got) ==
    /\ Alive
    /\ pc["coord"] = at \o "_wait"
    /\ ~reg_aborted
    /\ lock = "free"
    /\ lock' = "coord"
    /\ pc' = [ pc EXCEPT !["coord"] = got ]
    /\ UNCHANGED << rpc, resource_name, devices, tasks, server_handle, sock, new_handle,
                    shutdown, seen, reg_aborted, in_flight, streams,
                    iter, startup >>


\* CoordAbortOld without the handle.abort(): the repair takes and releases the
\* lock but leaves the old serving task running.
CoordAbortOld_NoAbort ==
    /\ Alive
    /\ pc["coord"] = "abort_old"
    /\ lock' = "free"
    /\ pc' = [ pc EXCEPT !["coord"] = "start_exists" ]
    /\ UNCHANGED << rpc, resource_name, devices, tasks, server_handle, sock, new_handle,
                    shutdown, seen, reg_aborted, in_flight, streams, iter,
                    startup >>

\* { let handle = server_handle.lock().await; handle.abort(); }
CoordAbortOld ==
    /\ Alive
    /\ pc["coord"] = "abort_old"
    /\ tasks' = Abort(tasks, server_handle)
    /\ lock' = "free"
    /\ pc' = [ pc EXCEPT !["coord"] = "start_exists" ]
    /\ UNCHANGED << rpc, resource_name, devices, server_handle, sock, new_handle,
                    shutdown, seen, reg_aborted, in_flight, streams,
                    iter, startup >>


\* CoordInstall without the `*guard = new_handle`: the lock is taken and released
\* but the cell keeps the old handle.
CoordInstall_KeepsOld ==
    /\ Alive
    /\ pc["coord"] = "install"
    /\ new_handle' = 0
    /\ lock' = "free"
    /\ iter' = [ iter EXCEPT !.installs = @ + 1 ]
    /\ pc' = [ pc EXCEPT !["coord"] = "register" ]
    /\ UNCHANGED << rpc, resource_name, devices, tasks, server_handle, sock, shutdown,
                    seen, reg_aborted, in_flight, streams, startup >>

\* Ok(new_handle) => { let mut guard = server_handle.lock().await; *guard = new_handle; }
CoordInstall ==
    /\ Alive
    /\ pc["coord"] = "install"
    /\ server_handle' = new_handle
    /\ new_handle' = 0
    /\ lock' = "free"
    /\ iter' = [ iter EXCEPT !.installs = @ + 1 ]
    /\ pc' = [ pc EXCEPT !["coord"] = "register" ]
    /\ UNCHANGED << rpc, resource_name, devices, tasks, sock, shutdown, seen,
                    reg_aborted, in_flight, streams, startup >>

\* select! { _ = sleep(10 s) => {}, ..   - the iteration ends here.
CoordSelectTimer ==
    /\ Alive
    /\ pc["coord"] = "select"
    /\ ~reg_aborted
    /\ pc' = [ pc EXCEPT !["coord"] = "head" ]
    /\ iter' = NoIter
    /\ UNCHANGED << rpc, resource_name, devices, tasks, server_handle, lock, sock,
                    new_handle, shutdown, seen, reg_aborted, in_flight,
                    streams, startup >>

\* .. changed = shutdown.changed() => { if changed.is_err() || *shutdown.borrow() { break; } } }
\* changed() is ready when the channel's version differs from the one this
\* receiver has seen (the sender lives as long as main does).
CoordSelectChanged ==
    /\ Alive
    /\ pc["coord"] = "select"
    /\ ~reg_aborted
    /\ shutdown.version # seen
    /\ seen' = shutdown.version
    /\ pc' = [ pc EXCEPT !["coord"] = IF shutdown.value THEN "done" ELSE "head" ]
    /\ iter' = NoIter
    /\ UNCHANGED << rpc, resource_name, devices, tasks, server_handle, lock, sock,
                    new_handle, shutdown, reg_aborted, in_flight, streams,
                    startup >>

\* The aborted task is dropped at the .await it is suspended in: its pending
\* registration call, and a new_handle it has not installed yet, go with it
\* (dropping a JoinHandle detaches the task, it does not stop it).  Its
\* iteration ends with it.
CoordCancelled ==
    /\ Alive
    /\ reg_aborted
    /\ pc["coord"] \in Suspended
    /\ pc' = [ pc EXCEPT !["coord"] = "cancelled" ]
    /\ in_flight' = in_flight \ {"coord"}
    /\ new_handle' = 0
    /\ iter' = NoIter
    /\ UNCHANGED << rpc, resource_name, devices, tasks, server_handle, lock, sock,
                    shutdown, seen, reg_aborted, streams, startup >>

\* --------------------------------------------------------- list_and_watch
\* A ListAndWatch call handled by the service of serving task k (tonic serves each
\* accepted connection on a task of its own, so a call can arrive on a connection
\* of any endpoint started so far).  The handler sends the one item into the
\* channel of capacity 1, spawns the keep-alive task with tx_hold and a clone of
\* the plugin's receiver (which has seen the initial version), and returns the
\* receiving side; its own tx is dropped at the return.
ListAndWatch(k) ==
    /\ Alive
    /\ Len(streams) < MaxStreams
    /\ k \in 1 .. Len(tasks)
    /\ streams' = Append(streams, [ items |-> << Values(tasks[k].devices) >>,
                                    ka |-> "check", seen |-> 0, rx |-> TRUE ])
    /\ UNCHANGED << rpc, resource_name, pc, devices, tasks, server_handle, lock, sock,
                    new_handle, shutdown, seen, reg_aborted, in_flight,
                    iter, startup >>


\* KeepAliveCheck with the test dropped: the task leaves its loop at the first
\* check and releases tx_hold whatever the signal says.
KeepAliveCheck_NoTest(s) ==
    /\ Alive
    /\ s \in 1 .. Len(streams)
    /\ streams[s].ka = "check"
    /\ streams' = [ streams EXCEPT ![s].ka = "done" ]
    /\ UNCHANGED << rpc, resource_name, pc, devices, tasks, server_handle, lock, sock,
                    new_handle, shutdown, seen, reg_aborted, in_flight, iter, startup >>


\* KeepAliveCheck that also watches its stream (tx_hold.is_closed()): the task
\* leaves its loop once the client has dropped the receiving side.
KeepAliveCheck_StopsOnDisconnect(s) ==
    /\ Alive
    /\ s \in 1 .. Len(streams)
    /\ streams[s].ka = "check"
    /\ streams' = [ streams EXCEPT
                      ![s].ka = IF shutdown.value \/ ~streams[s].rx THEN "done" ELSE "wait" ]
    /\ UNCHANGED << rpc, resource_name, pc, devices, tasks, server_handle, lock, sock,
                    new_handle, shutdown, seen, reg_aborted, in_flight, iter, startup >>

\* loop { if *shutdown.borrow() { break; } ..  } drop(tx_hold);
KeepAliveCheck(s) ==
    /\ Alive
    /\ s \in 1 .. Len(streams)
    /\ streams[s].ka = "check"
    /\ streams' = [ streams EXCEPT ![s].ka = IF shutdown.value THEN "done" ELSE "wait" ]
    /\ UNCHANGED << rpc, resource_name, pc, devices, tasks, server_handle, lock, sock,
                    new_handle, shutdown, seen, reg_aborted, in_flight,
                    iter, startup >>


\* KeepAliveChanged waiting only for a change that happens after the wait began
\* (shutdown.mark_unchanged() before changed()): a version that moved between the
\* check and the wait is marked seen and the task goes on waiting.
KeepAliveChanged_MarkUnchanged(s) ==
    /\ Alive
    /\ s \in 1 .. Len(streams)
    /\ streams[s].ka = "wait"
    /\ shutdown.version # streams[s].seen
    /\ streams' = [ streams EXCEPT ![s].seen = shutdown.version ]
    /\ UNCHANGED << rpc, resource_name, pc, devices, tasks, server_handle, lock, sock,
                    new_handle, shutdown, seen, reg_aborted, in_flight, iter, startup >>

\* .. if shutdown.changed().await.is_err() { break; } }
KeepAliveChanged(s) ==
    /\ Alive
    /\ s \in 1 .. Len(streams)
    /\ streams[s].ka = "wait"
    /\ shutdown.version # streams[s].seen
    /\ streams' = [ streams EXCEPT ![s].ka = "check", ![s].seen = shutdown.version ]
    /\ UNCHANGED << rpc, resource_name, pc, devices, tasks, server_handle, lock, sock,
                    new_handle, shutdown, seen, reg_aborted, in_flight,
                    iter, startup >>

\* ------------------------------------------------------------ environment
\* The client (kubelet) drops the stream: the receiving side is gone.
ClientDisconnect(s) ==
    /\ Alive
    /\ s \in 1 .. Len(streams)
    /\ streams[s].rx
    /\ streams' = [ streams EXCEPT ![s].rx = FALSE ]
    /\ UNCHANGED << rpc, resource_name, pc, devices, tasks, server_handle, lock, sock,
                    new_handle, shutdown, seen, reg_aborted, in_flight,
                    iter, startup >>

\* kubelet removes the socket file (while a repair is still within the bound on
\* serving tasks).
ExternalDelete ==
    /\ Alive
    /\ sock # 0
    /\ Len(tasks) < MaxTasks
    /\ sock' = 0
    /\ UNCHANGED << rpc, resource_name, pc, devices, tasks, server_handle, lock,
                    new_handle, shutdown, seen, reg_aborted, in_flight,
                    streams, iter, startup >>

\* ------------------------------------------------- unary RPCs of the Service
\* Sequences over S of length at most n.
Lists(S, n) == UNION { [ 1 .. m -> S ] : m \in 0 .. n }

\* The device ids a client names in a request: the ids of the first two host
\* devices (known or not, depending on how many devices were discovered) and an
\* id no inventory holds.
RequestIds(rn) == { DeviceId(rn, 0), DeviceId(rn, 1), << "x" >> }

\* The id lists of the container requests of one call: at most c container
\* requests naming at most t ids in total.
RECURSIVE IdLists(_, _, _)
IdLists(S, c, t) ==
    IF c = 0 THEN { << >> }
    ELSE { << >> } \cup
         UNION { { << l >> \o r : r \in IdLists(S, c - 1, t - Len(l)) } : l \in Lists(S, t) }

\* k8s::AllocateRequest { container_requests: [ContainerAllocateRequest { devices_ids }] }
AllocateRequests(rn) ==
    { [ i \in 1 .. Len(ls) |-> [ devices_ids |-> ls[i] ] ] :
        ls \in IdLists(RequestIds(rn), MaxContainers, MaxIds) }

\* Status::invalid_argument(format!("unknown device ID {dev_id}")): the message is
\* the fixed text followed by the characters of the id.
InvalidArgument(dev_id) ==
    [ code |-> "InvalidArgument", message |-> << "unknown device ID " >> \o dev_id ]


\* AllocateContainer with the unknown id skipped instead of failing the call.
RECURSIVE AllocateContainer_SkipsUnknown(_, _, _)
AllocateContainer_SkipsUnknown(devs, ids, cdi_devices) ==
    IF ids = << >> THEN [ ok |-> TRUE, cdi_devices |-> cdi_devices ]
    ELSE IF Head(ids) \notin DOMAIN devs
           THEN AllocateContainer_SkipsUnknown(devs, Tail(ids), cdi_devices)
    ELSE AllocateContainer_SkipsUnknown(devs, Tail(ids),
                                        Append(cdi_devices, [ name |-> Head(ids) ]))

\* for dev_id in &creq.devices_ids { if !self.devices.contains_key(dev_id) { return Err(..) }
\*                                   cdi_devices.push(CdiDevice { name: dev_id.clone() }) }
RECURSIVE AllocateContainer(_, _, _)
AllocateContainer(devs, ids, cdi_devices) ==
    IF ids = << >> THEN [ ok |-> TRUE, cdi_devices |-> cdi_devices ]
    ELSE IF Head(ids) \notin DOMAIN devs
           THEN [ ok |-> FALSE, status |-> InvalidArgument(Head(ids)) ]
    ELSE AllocateContainer(devs, Tail(ids),
                           Append(cdi_devices, [ name |-> Head(ids) ]))

\* for creq in &request.get_ref().container_requests { .. container_responses.push(..) }
\* Ok(Response::new(AllocateResponse { container_responses }))
RECURSIVE AllocateContainers(_, _, _)
AllocateContainers(devs, creqs, container_responses) ==
    IF creqs = << >>
      THEN [ code |-> "Ok", container_responses |-> container_responses ]
      ELSE LET c == AllocateContainer(devs, Head(creqs).devices_ids, << >>)
           IN  IF ~c.ok THEN c.status
               ELSE AllocateContainers(devs, Tail(creqs),
                        Append(container_responses,
                               [ envs |-> << >>, mounts |-> << >>, devices |-> << >>,
                                 annotations |-> << >>,
                                 cdi_devices |-> c.cdi_devices ]))

\* allocate(&self, request) over the inventory devs of the plugin clone.
allocate(devs, req) == AllocateContainers(devs, req, << >>)

\* A request has reached the Service and its handler has not run yet.
Pending(kind) == rpc.kind = kind /\ rpc.resp.code = "Pending"

\* The Allocate handler of the service of serving task k, called with req: the
\* response goes to the client.
Allocate(k, req) ==
    /\ Alive
    /\ k \in 1 .. Len(tasks)
    /\ rpc' = [ kind |-> "Allocate", req |-> req,
                resp |-> allocate(tasks[k].devices, req) ]
    /\ UNCHANGED << resource_name, pc, devices, tasks, server_handle, lock, sock,
                    new_handle, shutdown, seen, reg_aborted, in_flight,
                    streams, iter, startup >>

\* The allocation_size values a client sends: the field is the int32 of the
\* v1beta1 device plugin API, so a negative value can arrive.
AllocationSizes == -1 .. MaxIds + 1

\* k8s::PreferredAllocationRequest { container_requests:
\*     [ContainerPreferredAllocationRequest { available_device_i_ds, allocation_size, .. }] }
\* with the available ids ls[i] and the size zs[i] of container request i.
PreferredAllocationRequest(ls, zs) ==
    [ i \in 1 .. Len(ls) |-> [ available_device_i_ds |-> ls[i],
                               allocation_size |-> zs[i] ] ]

\* creq.allocation_size as usize: a non-negative value is kept, a negative one
\* wraps to 2^64 + n.  The model's integers are 32 bits wide, so the wrapped value
\* is represented by 2^31 + n; like 2^64 + n it exceeds the length of every list.
AsUsize(n) == IF n >= 0 THEN n ELSE 2147483647 + n + 1

\* available.iter().take(size).cloned().collect()
Take(s, size) == SubSeq(s, 1, IF size < Len(s) THEN size ELSE Len(s))


\* for creq in &request.get_ref().container_requests { .. out.container_responses.push(..) }
\* Ok(Response::new(out))
RECURSIVE PreferredContainers(_, _)
PreferredContainers(creqs, container_responses) ==
    IF creqs = << >> THEN [ code |-> "Ok", container_responses |-> container_responses ]
    ELSE LET available == Head(creqs).available_device_i_ds
             size == AsUsize(Head(creqs).allocation_size)
             chosen == Take(available, size)
         IN  PreferredContainers(Tail(creqs),
                 Append(container_responses, [ device_i_ds |-> chosen ]))

\* get_preferred_allocation(&self, request): the inventory is not consulted.
get_preferred_allocation(req) == PreferredContainers(req, << >>)

\* The GetPreferredAllocation handler of the service of serving task k.
GetPreferredAllocation(k, req) ==
    /\ Alive
    /\ k \in 1 .. Len(tasks)
    /\ rpc' = [ kind |-> "GetPreferredAllocation", req |-> req,
                resp |-> get_preferred_allocation(req) ]
    /\ UNCHANGED << resource_name, pc, devices, tasks, server_handle, lock, sock,
                    new_handle, shutdown, seen, reg_aborted, in_flight,
                    streams, iter, startup >>

\* pre_start_container: Ok(Response::new(PreStartContainerResponse {}))
PreStartContainer(k, req) ==
    /\ Alive
    /\ k \in 1 .. Len(tasks)
    /\ rpc' = [ kind |-> "PreStartContainer", req |-> req, resp |-> [ code |-> "Ok" ] ]
    /\ UNCHANGED << resource_name, pc, devices, tasks, server_handle, lock, sock,
                    new_handle, shutdown, seen, reg_aborted, in_flight,
                    streams, iter, startup >>

\* get_device_plugin_options: both capability flags are false.
GetDevicePluginOptions(k, req) ==
    /\ Alive
    /\ k \in 1 .. Len(tasks)
    /\ rpc' = [ kind |-> "GetDevicePluginOptions", req |-> req,
                resp |-> [ code |-> "Ok",
                           pre_start_required |-> FALSE,
                           get_preferred_allocation_available |-> FALSE ] ]
    /\ UNCHANGED << resource_name, pc, devices, tasks, server_handle, lock, sock,
                    new_handle, shutdown, seen, reg_aborted, in_flight,
                    streams, iter, startup >>

\* A request of the given kind waiting for its handler.
Request(kind, req) == [ kind |-> kind, req |-> req, resp |-> [ code |-> "Pending" ] ]

\* The handlers on their own: the plugin has completed its startup over any
\* number of host devices (the state main is in while it waits for the
\* interrupt, with the Coordinator launched), and one unary call of any kind
\* and content has reached the Service.
RpcInit ==
    /\ resource_name = << "n", "/", "g" >>
    /\ \E n \in 0 .. MaxDevices : devices = discover_devices(resource_name, n)
    /\ pc = [ main |-> "ctrl_c", coord |-> "spawned" ]
    /\ tasks = << [ st |-> "live", devices |-> devices ] >>
    /\ server_handle = 1
    /\ lock = "free"
    /\ sock = 1
    /\ new_handle = 0
    /\ shutdown = [ value |-> FALSE, version |-> 0 ]
    /\ seen = 0
    /\ reg_aborted = FALSE
    /\ in_flight = {}
    /\ streams = << >>
    /\ iter = NoIter
    /\ startup = [ started |-> TRUE, connected |-> TRUE, registered |-> TRUE,
                   failed |-> FALSE ]
    /\ \/ \E r \in AllocateRequests(resource_name) : rpc = Request("Allocate", r)
       \/ \E ls \in IdLists(RequestIds(resource_name), MaxContainers, MaxIds) :
            \E zs \in [ 1 .. Len(ls) -> AllocationSizes ] :
              rpc = Request("GetPreferredAllocation", PreferredAllocationRequest(ls, zs))
       \/ rpc = Request("PreStartContainer", << >>)
       \/ rpc = Request("GetDevicePluginOptions", << >>)

\* The handler of the pending call runs on it.
RpcNext ==
    \/ \E k \in 1 .. Len(tasks) : Pending("Allocate") /\ Allocate(k, rpc.req)
    \/ \E k \in 1 .. Len(tasks) :
          Pending("GetPreferredAllocation") /\ GetPreferredAllocation(k, rpc.req)
    \/ \E k \in 1 .. Len(tasks) :
          Pending("PreStartContainer") /\ PreStartContainer(k, rpc.req)
    \/ \E k \in 1 .. Len(tasks) :
          Pending("GetDevicePluginOptions") /\ GetDevicePluginOptions(k, rpc.req)

RpcSpec == RpcInit /\ [][RpcNext]_vars

\* ---------------------------------------------------------- specification
MainNext ==
    \/ MainParse
    \/ MainNewPlugin
    \/ MainWaitSocket
    \/ MainSpawnCoordinator
    \/ MainCtrlC
    \/ MainCtrlCErr
    \/ MainSendShutdown
    \/ MainLock
    \/ MainAbortServer
    \/ MainAbortCoordinator
    \/ MainReturn

CoordNext ==
    \/ CoordStart
    \/ CoordLoopHead
    \/ CoordCheckPath
    \/ CoordLock("lock_old", "abort_old")
    \/ CoordLockResume("lock_old", "abort_old")
    \/ CoordAbortOld
    \/ CoordLock("lock_new", "install")
    \/ CoordLockResume("lock_new", "install")
    \/ CoordInstall
    \/ CoordSelectTimer
    \/ CoordSelectChanged
    \/ CoordCancelled

Next ==
    \/ MainNext
    \/ CoordNext
    \/ \E p \in Procs : StartExists(p)
    \/ \E p \in Procs : StartRemove(p)
    \/ \E p \in Procs : StartBindOk(p)
    \/ \E p \in Procs : StartBindErr(p)
    \/ \E p \in Procs : RegisterCall(p)
    \/ \E p \in Procs, ok \in BOOLEAN : RegisterReturn(p, ok)
    \/ \E k \in 1 .. Len(tasks) : ListAndWatch(k)
    \/ \E s \in 1 .. Len(streams) : KeepAliveCheck(s)
    \/ \E s \in 1 .. Len(streams) : KeepAliveChanged(s)
    \/ \E s \in 1 .. Len(streams) : ClientDisconnect(s)
    \/ ExternalDelete

Spec == Init /\ [][Next]_vars



\* The whole plugin: the lifecycle together with the unary handlers, which a
\* client calls, about the first device, on the endpoint that is bound at the
\* path.
ServiceNext ==
    \/ Next
    \/ /\ Connectable
       /\ Allocate(sock, << [ devices_ids |-> << DeviceId(resource_name, 0) >> ] >>)
    \/ /\ Connectable
       /\ GetPreferredAllocation(sock,
              << [ available_device_i_ds |-> << DeviceId(resource_name, 0) >>,
                   allocation_size |-> 1 ] >>)
    \/ /\ Connectable
       /\ PreStartContainer(sock, << >>)

ServiceSpec == Init /\ [][ServiceNext]_vars

\* The scheduling the runtime guarantees, one assumption per specification.
\* Nothing is ever assumed of main: the interrupt may never arrive, and the
\* process may stay in any step of its shutdown.
CoordStep ==
    \/ CoordNext
    \/ StartExists("coord")
    \/ StartRemove("coord")
    \/ StartBindOk("coord")
    \/ StartBindErr("coord")
    \/ RegisterCall("coord")
    \/ \E ok \in BOOLEAN : RegisterReturn("coord", ok)

KeepAliveStep(s) == KeepAliveCheck(s) \/ KeepAliveChanged(s)

\* The Coordinator task is polled while it can make progress: a registration
\* call returns, the timer fires, the mutex is handed over.
FairCoordinator ==
    /\ Init /\ [][Next]_vars
    /\ WF_vars(CoordStep)

\* Moreover a bind that can succeed does not fail forever.
FairRepair ==
    /\ Init /\ [][Next]_vars
    /\ WF_vars(CoordStep)
    /\ SF_vars(StartBindOk("coord"))

\* Every keep-alive task is polled when it can run.
FairKeepAlive ==
    /\ Init /\ [][Next]_vars
    /\ \A s \in 1 .. MaxStreams : WF_vars(KeepAliveStep(s))

\* ================================================================ claims
LiveTasks == { k \in 1 .. Len(tasks) : Live(k) }

\* The owning process has completed its shutdown sequence: the signal is set, the
\* handle in the cell was aborted and reg_task.abort() was called.
ShutdownSequenceDone == pc["main"] = "finished"

\* C1: once the owning process has completed its shutdown sequence no serving
\* task is live and the handle in the shared cell refers to a stopped task, for
\* every interleaving with a Coordinator iteration.
C1_ShutdownStopsServing ==
    ShutdownSequenceDone =>
        /\ LiveTasks = {}
        /\ server_handle \in 1 .. Len(tasks) /\ ~Live(server_handle)

\* C2: in every reachable state at most one serving task that has not been
\* aborted exists, and a serving task is only ever spawned when every serving
\* task spawned before it has been aborted.
C2_AtMostOneServing ==
    /\ [](Cardinality(LiveTasks) <= 1)
    /\ [][ Len(tasks') > Len(tasks) => \A k \in 1 .. Len(tasks) : ~Live(k) ]_vars

\* A repair has replaced the serving task: the first one is aborted, a later one
\* is live.
C2_Witness ==
    /\ Len(tasks) >= 2
    /\ ~Live(1)
    /\ Live(Len(tasks))

\* C3: in a Coordinator iteration that found the path missing and whose restart
\* succeeded, the shared handle is replaced exactly once, the old handle was
\* aborted before the new serving task was started and installed, and the
\* registration call of the iteration is issued only after the new handle has
\* been installed.
C3_RestartOrder ==
    /\ iter.installs <= 1
    /\ iter.restart = "ok" =>
          /\ iter.missing
          /\ iter.old_aborted
          /\ iter.spawned = Len(tasks)
    /\ iter.installs = 1 =>
          /\ iter.restart = "ok"
          /\ server_handle = iter.spawned
    /\ (iter.restart = "ok" /\ iter.regs > 0) => iter.installs = 1
    /\ (iter.restart = "ok" /\ pc["coord"] \in {"register", "reg_wait", "select"}) =>
          iter.installs = 1

\* The registration call of an iteration that repaired the endpoint is in flight.
C3_Witness ==
    /\ pc["coord"] = "reg_wait"
    /\ iter.missing
    /\ iter.restart = "ok"
    /\ iter.installs = 1
    /\ server_handle = Len(tasks)
    /\ "coord" \in in_flight

\* The stream's sending side is closed: the handler's tx is dropped at its return
\* and the keep-alive task has released tx_hold.
Closed(s) == s \in 1 .. Len(streams) /\ streams[s].ka = "done"

\* C5: every ListAndWatch stream carries exactly one item, the full inventory,
\* and while the Shutdown Signal is false it is not closed, also after the
\* Coordinator has aborted and restarted the serving endpoint.
C5_OneItemThenOpen ==
    \A s \in 1 .. Len(streams) :
        /\ streams[s].items = << Values(devices) >>
        /\ Len(streams[s].items[1]) = Cardinality(DOMAIN devices)
        /\ ~shutdown.value => ~Closed(s)

\* A stream of a non-empty inventory is held open by its keep-alive task after
\* a repair replaced the serving endpoint.
C5_Witness ==
    /\ Len(streams) >= 1
    /\ streams[1].ka = "wait"
    /\ Len(streams[1].items[1]) >= 2
    /\ ~shutdown.value
    /\ Len(tasks) >= 2
    /\ server_handle = 2

\* The Coordinator task is inside its loop.
CoordRunning ==
    pc["coord"] \notin {"none", "done", "cancelled"}

\* The Coordinator has bound a fresh serving endpoint in this iteration, installed
\* its handle, and has issued the registration call after that, with the
\* endpoint still bound at the path.
RepairedAndRegistering ==
    /\ pc["coord"] = "reg_wait"
    /\ iter.restart = "ok"
    /\ server_handle = iter.spawned
    /\ sock = iter.spawned

\* C4: if the backing file is missing while the Coordinator loop is running and
\* the Shutdown Signal is not set, then (registration calls return, a bind
\* eventually succeeds, deletions stop) the Coordinator eventually binds a fresh
\* serving endpoint at the path and afterwards issues a registration call, unless
\* the process is shut down or ends first.
C4_RepairLiveness ==
    (CoordRunning /\ sock = 0 /\ ~shutdown.value /\ Alive)
        ~> (RepairedAndRegistering \/ shutdown.value \/ ~Alive)

\* The repaired endpoint is bound and announced while no shutdown was requested.
C4_Witness ==
    /\ RepairedAndRegistering
    /\ ~shutdown.value
    /\ pc["main"] = "ctrl_c"
    /\ Len(tasks) >= 2

\* C7: the Shutdown Signal starts false and is changed only by the owning
\* process's send, once, from false to true; it never reverts, and neither the
\* Coordinator nor a keep-alive task writes it.
C7_ShutdownMonotonic ==
    /\ [](shutdown.version = 0 => ~shutdown.value)
    /\ [][ shutdown' # shutdown =>
             /\ pc["main"] = "send" /\ pc'["main"] = "lock"
             /\ shutdown.version = 0 /\ ~shutdown.value
             /\ shutdown'.version = 1 /\ shutdown'.value ]_vars
    /\ [][ shutdown.value => shutdown'.value ]_vars

\* The signal is set and both kinds of reader have reacted to it.
C7_Witness ==
    /\ shutdown.value
    /\ pc["coord"] = "done"
    /\ Len(streams) >= 1 /\ streams[1].ka = "done"

\* C8: after a graceful shutdown the socket file no longer exists at the path.
C8_NoStaleSocket ==
    pc["main"] \in {"finished", "exit_ok"} => sock = 0

\* C9: a failed registration call and a failed endpoint restart inside the
\* Coordinator loop end neither the loop nor the process; the loop is left only
\* with the Shutdown Signal set; while it is not set the Coordinator goes on to
\* the registration call of the next iteration, and every iteration that finds
\* the path missing attempts the restart before its registration call.
C9_FailuresNotFatal ==
    /\ [](pc["coord"] \in {"done", "cancelled"} => shutdown.value)
    /\ [][ (iter'.reg = "err" /\ iter.reg # "err") =>
             /\ pc'["coord"] = "select"
             /\ pc'["main"] = pc["main"] ]_vars
    /\ [][ (iter'.restart = "err" /\ iter.restart # "err") =>
             /\ pc'["coord"] = "register"
             /\ pc'["main"] = pc["main"] ]_vars
    /\ [][ (pc["coord"] = "check_path" /\ pc'["coord"] \notin {"check_path", "gone"}) =>
             /\ iter'.missing = (sock = 0)
             /\ pc'["coord"] = IF sock = 0 THEN "lock_old" ELSE "register" ]_vars
    /\ []((pc["coord"] \in {"register", "reg_wait", "select"} /\ iter.missing) =>
             iter.restart \in {"ok", "err"})
    /\ (pc["coord"] = "select" /\ (iter.reg = "err" \/ iter.restart = "err"))
          ~> (pc["coord"] = "reg_wait" \/ shutdown.value \/ ~Alive)

\* Both the restart and the registration of one iteration failed, and the
\* Coordinator is waiting for its next iteration.
C9_Witness ==
    /\ pc["coord"] = "select"
    /\ iter.restart = "err"
    /\ iter.reg = "err"
    /\ ~shutdown.value
    /\ pc["main"] = "ctrl_c"

\* C10: the Coordinator loop is launched only after the serving endpoint was
\* started, the socket was observed connectable and the initial registration
\* succeeded, in that order; a failure of the bind, of the connect wait or of the
\* initial registration ends the process with an error and the Coordinator is
\* never launched.
C10_StartupSequenced ==
    /\ pc["coord"] # "none" =>
          startup.started /\ startup.connected /\ startup.registered
    /\ startup.registered => startup.connected
    /\ startup.connected => startup.started
    /\ startup.failed => pc["main"] = "exit_err" /\ pc["coord"] = "none"
    /\ (pc["main"] = "exit_err" /\ ~startup.registered) => startup.failed

\* The Coordinator has just been launched after a complete startup.
C10_Witness ==
    /\ pc["coord"] = "spawned"
    /\ pc["main"] = "ctrl_c"
    /\ startup.registered

RECURSIVE RequestedIds(_)
RequestedIds(req) ==
    IF req = << >> THEN << >>
    ELSE Head(req).devices_ids \o RequestedIds(Tail(req))

\* The Allocate call has been handled.
AllocateDone == rpc.kind = "Allocate" /\ rpc.resp.code # "Pending"

\* C11: Allocate succeeds if and only if every device id of every container
\* request is in the inventory; otherwise the whole call fails with
\* InvalidArgument, the message holds the first unknown id in request order and
\* no container response is returned; on success there is one response per
\* container whose device references are exactly the requested ids in order,
\* with no environment variables, mounts or kernel devices.
C11_AllocateAtomic ==
    AllocateDone =>
        LET ids == RequestedIds(rpc.req)
            unknown == { i \in 1 .. Len(ids) : ids[i] \notin DOMAIN devices }
        IN  /\ rpc.resp.code \in {"Ok", "InvalidArgument"}
            /\ rpc.resp.code = "Ok" <=> unknown = {}
            /\ unknown # {} =>
                 LET first == ids[CHOOSE i \in unknown : \A j \in unknown : i <= j]
                     msg == rpc.resp.message
                 IN  /\ \E a \in 1 .. Len(msg) : SubSeq(msg, a, Len(msg)) = first
                     /\ DOMAIN rpc.resp = {"code", "message"}
            /\ unknown = {} =>
                 /\ Len(rpc.resp.container_responses) = Len(rpc.req)
                 /\ \A c \in 1 .. Len(rpc.req) :
                      LET r == rpc.resp.container_responses[c]
                      IN  /\ r.cdi_devices =
                               [ i \in 1 .. Len(rpc.req[c].devices_ids) |->
                                   [ name |-> rpc.req[c].devices_ids[i] ] ]
                          /\ r.envs = << >>
                          /\ r.mounts = << >>
                          /\ r.devices = << >>

\* A call whose first container names only known ids and whose second names an
\* unknown one has been rejected as a whole.
C11_Witness ==
    /\ AllocateDone
    /\ rpc.resp.code = "InvalidArgument"
    /\ Len(rpc.req) = 2
    /\ Len(rpc.req[1].devices_ids) = 1
    /\ rpc.req[1].devices_ids[1] \in DOMAIN devices
    /\ Len(rpc.req[2].devices_ids) = 1
    /\ rpc.req[2].devices_ids[1] \notin DOMAIN devices

\* The GetPreferredAllocation call has been handled.
PreferredDone == rpc.kind = "GetPreferredAllocation" /\ rpc.resp.code # "Pending"

\* C12: GetPreferredAllocation returns, for each container request, exactly the
\* first allocationSize entries of availableDeviceIds in the caller's order:
\* the full list when allocationSize is at least its length, the empty list
\* for 0, whether or not the ids are in the inventory.
C12_PositionalTruncation ==
    PreferredDone =>
        /\ rpc.resp.code = "Ok"
        /\ Len(rpc.resp.container_responses) = Len(rpc.req)
        /\ \A c \in 1 .. Len(rpc.req) :
             LET available == rpc.req[c].available_device_i_ds
                 size == rpc.req[c].allocation_size
                 chosen == rpc.resp.container_responses[c].device_i_ds
             IN  /\ size >= Len(available) => chosen = available
                 /\ size < Len(available) =>
                      /\ Len(chosen) = (IF size > 0 THEN size ELSE 0)
                      /\ \A i \in 1 .. Len(chosen) : chosen[i] = available[i]

\* C13: the Serving Endpoint's start does not depend on a file being present at
\* the path: whether exists() found none, found a stale one, or the file found is
\* deleted externally before it is removed, the start goes on to bind the
\* path; it never fails because the file is absent.
C13_StartIgnoresFilePresence ==
    [][ \A p \in Procs :
          (pc[p] \in {"start_exists", "start_remove"} /\ pc'[p] \notin {pc[p], "gone"}) =>
              pc'[p] \in {"start_remove", "start_bind"} ]_vars

\* C14: for every number N >= 0 of enumerated host devices, discovery succeeds
\* and returns an inventory of exactly N entries whose ids are pairwise
\* distinct and are "{resourceName}={index}" for the indices 0..N-1, every
\* device Healthy; N = 0 gives the empty inventory and startup goes on.
C14_DiscoveryIds ==
    [][ (pc["main"] = "new_plugin" /\ pc'["main"] # "new_plugin") =>
          /\ pc'["main"] = "start_exists"
          /\ \E n \in 0 .. MaxDevices : devices' = discover_devices(resource_name, n)
          /\ \A n \in 0 .. MaxDevices :
               devices' = discover_devices(resource_name, n) =>
                 /\ Cardinality(DOMAIN devices') = n
                 /\ DOMAIN devices' =
                      { resource_name \o << "=" >> \o Decimal(i) : i \in 0 .. n - 1 }
                 /\ \A id \in DOMAIN devices' :
                      /\ devices'[id].id = id
                      /\ devices'[id].health = "Healthy" ]_vars

\* Discovery over the largest number of host devices has returned and startup
\* goes on with one entry per device.
C14_Witness ==
    /\ pc["main"] = "start_exists"
    /\ Cardinality(DOMAIN devices) = MaxDevices
    /\ resource_name \o << "=", "0" >> \in DOMAIN devices
    /\ resource_name \o << "=", "1" >> \in DOMAIN devices

\* The Coordinator is between the abort of the old handle and the installation
\* of the new one.
RepairInProgress ==
    pc["coord"] \in {"start_exists", "start_remove", "start_bind",
                     "lock_new", "lock_new_wait", "install"}

\* C15: a repair aborts the old handle, starts the fresh endpoint and replaces
\* the shared handle under one exclusive hold of the handle lock: the owning
\* process never holds the lock between the abort and the installation, and
\* whoever holds the lock finds in the cell the handle of the serving task
\* started last.
C15_RepairUnderOneHold ==
    /\ lock = "main" => ~RepairInProgress
    /\ (lock = "main" \/ pc["coord"] = "abort_old") => server_handle = Len(tasks)

\* C16: when the Coordinator issues the registration call of an iteration that
\* found the backing path missing, the repair step of that iteration has
\* finished and a live serving endpoint, the one whose handle is in the cell,
\* is bound at the path, whatever the outcome of the restart attempt was.
C16_EndpointBoundAtRegistration ==
    [][ ("coord" \in in_flight' /\ "coord" \notin in_flight /\ iter.missing) =>
          /\ iter.restart \in {"ok", "err"}
          /\ Connectable
          /\ sock = server_handle ]_vars

\* The Coordinator has left its loop, or was cancelled, or ended with the process.
CoordStopped == pc["coord"] \in {"done", "cancelled", "gone"}

\* C17: once the Shutdown Signal is set the Coordinator begins no new iteration
\* (it never passes the loop-head check again); from the loop head it leaves
\* the loop, from the wait it leaves the loop or returns to the head; and
\* wherever the signal found it, at the head, before or in a registration call
\* or in the wait, it stops: the change is not missed.
C17_NoNewIteration ==
    /\ [][ shutdown.value => ~(pc'["coord"] = "check_path" /\ pc["coord"] # "check_path") ]_vars
    /\ [][ (shutdown.value /\ pc["coord"] = "head" /\ pc'["coord"] # "head") =>
             pc'["coord"] \in {"done", "gone"} ]_vars
    /\ [][ (shutdown.value /\ pc["coord"] = "select" /\ pc'["coord"] # "select") =>
             pc'["coord"] \in {"done", "head", "cancelled", "gone"} ]_vars
    /\ (shutdown.value /\ pc["coord"] \in {"head", "register", "reg_wait", "select"})
          ~> CoordStopped

\* The signal was set after the Coordinator's loop-head check, and the
\* Coordinator left the loop from its wait through changed().
C17_Witness ==
    /\ pc["coord"] = "done"
    /\ shutdown.value
    /\ seen = shutdown.version
    /\ Alive

\* C18: at most one registration call is in flight in every reachable state:
\* the initial registration of startup has returned before the Coordinator
\* exists, the Coordinator has a call in flight only while it awaits it, and an
\* iteration makes exactly one call: none before its registration step, one
\* from then on.
C18_RegistrationsSerialized ==
    /\ Cardinality(in_flight) <= 1
    /\ "main" \in in_flight => pc["coord"] = "none"
    /\ "coord" \in in_flight <=> pc["coord"] = "reg_wait"
    /\ iter.regs <= 1
    /\ pc["coord"] \in {"reg_wait", "select"} => iter.regs = 1
    /\ pc["coord"] \in {"head", "check_path", "lock_old", "lock_old_wait", "abort_old",
                        "start_exists", "start_remove", "start_bind",
                        "lock_new", "lock_new_wait", "install", "register"} =>
          iter.regs = 0

\* The Coordinator's one call of the iteration is in flight, after the startup
\* registration has returned.
C18_Witness ==
    /\ in_flight = {"coord"}
    /\ iter.regs = 1
    /\ startup.registered
    /\ pc["main"] = "ctrl_c"

\* The keep-alive tasks that are still in their loop.
RunningKeepAlives == { s \in 1 .. Len(streams) : streams[s].ka # "done" }

\* C20: a keep-alive task leaves its loop only with the Shutdown Signal true;
\* a client disconnect and the abort of a serving task leave it as it is; so
\* while the signal is false (and the process runs) the number of running
\* keep-alive tasks never decreases, and every ListAndWatch call adds one.
C20_KeepAliveOnlyEndsOnShutdown ==
    /\ [](\A s \in 1 .. Len(streams) : streams[s].ka = "done" => shutdown.value)
    /\ [][ (Alive' /\ ~shutdown'.value) =>
             Cardinality(RunningKeepAlives') >= Cardinality(RunningKeepAlives) ]_vars
    /\ [][ Len(streams') = Len(streams) + 1 =>
             /\ Cardinality(RunningKeepAlives') = Cardinality(RunningKeepAlives) + 1
             /\ Len(streams') \in RunningKeepAlives' ]_vars
    /\ [][ \A s \in 1 .. Len(streams) :
             (Alive' /\ (streams'[s].rx # streams[s].rx \/ tasks' # tasks)) =>
                 streams'[s].ka = streams[s].ka ]_vars

\* A keep-alive task is still waiting although its client has disconnected and
\* the serving task of startup has been aborted and replaced by a repair.
C20_Witness ==
    /\ Len(streams) >= 1
    /\ streams[1].ka = "wait"
    /\ ~streams[1].rx
    /\ ~shutdown.value
    /\ Len(tasks) >= 2
    /\ tasks[1].st = "aborted"

\* C19: the Device Inventory is fixed once startup has built it: no RPC
\* (ListAndWatch, Allocate, GetPreferredAllocation, PreStartContainer), no
\* Coordinator repair and no shutdown step changes it, and every serving task,
\* the one started by a repair included, serves exactly that inventory.
C19_InventoryFrozen ==
    /\ [](\A k \in 1 .. Len(tasks) : tasks[k].devices = devices)
    /\ [][ pc["main"] # "new_plugin" => devices' = devices ]_vars
    /\ [][ \A k \in 1 .. Len(tasks) : tasks'[k].devices = tasks[k].devices ]_vars

\* After a repair and a subscription, an Allocate call was served from a
\* non-empty inventory, and the shutdown sequence has run.
C19_Witness ==
    /\ Len(tasks) >= 2
    /\ tasks[Len(tasks)].devices = devices
    /\ Cardinality(DOMAIN devices) >= 1
    /\ Len(streams) >= 1
    /\ rpc.kind = "Allocate"
    /\ rpc.resp.code = "Ok"
    /\ pc["main"] = "finished"

====
